---- MODULE Spec2Model ----
(***************************************************************************)
(* A model of django-modelqueue (src/modelqueue/__init__.py): the Status   *)
(* codec and the run() claim/execute/resolve algorithm, run by several     *)
(* concurrent callers against one table of rows.                           *)
(*                                                                         *)
(* Integers of the program that do not fit a machine word of the model     *)
(* checker (a status has 19 decimal digits, a priority 17) are kept as     *)
(* their decimal rendering: a sequence of digits, most significant first,  *)
(* without leading zeros, exactly the string the program itself formats    *)
(* and parses in combine() and in Status.priority.                         *)
(*                                                                         *)
(* A call of run is a sequence of steps: each read of the clock and each   *)
(* database statement is a step of its own, and the steps of other callers *)
(* fall between them.  The backing store is the one the program asks for   *)
(* with select_for_update() inside transaction.atomic(): a query locks the *)
(* row it returns until its transaction ends, a statement that needs a     *)
(* locked row waits, what a transaction wrote is seen by the others when   *)
(* it commits, and an exception rolls it back.                             *)
(***************************************************************************)
EXTENDS Integers, Sequences, FiniteSets, TLC

(***************************************************************************)
(* Bounds of the model.                                                    *)
(***************************************************************************)
\* The clock runs over the ticks 0..MaxClock; one tick is one millisecond.
MaxClock == 2
\* A table has the rows 1..NumRows (one row where callers run concurrently).
NumRows == 2
\* Concurrent callers of run() are 1..NumCalls.
NumCalls == 2
\* The number of admin actions carried out.
MaxAdmin == 1

Rows == 1..NumRows
Calls == 1..NumCalls

(***************************************************************************)
(* Decimal integers.                                                       *)
(***************************************************************************)
RECURSIVE NatDigits(_)
\* str(n) for a natural number n.
NatDigits(n) == IF n < 10 THEN <<n>> ELSE NatDigits(n \div 10) \o <<n % 10>>

\* The sign of a negative number in a rendering.
Minus == 0 - 1

\* str(n) for an integer n.
Str(n) == IF n < 0 THEN <<Minus>> \o NatDigits(0 - n) ELSE NatDigits(n)

\* Left-pad with zeros to a width of at least w: the 0w of a format spec.
ZeroPad(s, w) == IF Len(s) >= w THEN s ELSE [i \in 1..(w - Len(s)) |-> 0] \o s

\* '{:0wd}'.format(n)
Fmt(n, w) == ZeroPad(NatDigits(n), w)

RECURSIVE ParseInt(_)
\* int(s) for a string of digits: leading zeros go.
ParseInt(s) == IF Len(s) > 1 /\ Head(s) = 0 THEN ParseInt(Tail(s)) ELSE s

RECURSIVE LexLeq(_, _, _)
\* a <= b from digit i on, for strings of digits of one length.
LexLeq(a, b, i) ==
    IF i > Len(a) THEN TRUE
    ELSE IF a[i] # b[i] THEN a[i] < b[i]
    ELSE LexLeq(a, b, i + 1)

\* a <= b on integers in decimal rendering.
IntLeq(a, b) == Len(a) < Len(b) \/ (Len(a) = Len(b) /\ LexLeq(a, b, 1))

IntLess(a, b) == IntLeq(a, b) /\ a # b

RECURSIVE Dec(_)
\* s - 1 on a string of digits of fixed width (s is not zero).
Dec(s) ==
    IF s[Len(s)] > 0 THEN [s EXCEPT ![Len(s)] = @ - 1]
    ELSE Dec(SubSeq(s, 1, Len(s) - 1)) \o <<9>>

(***************************************************************************)
(* Datetimes and timedeltas.  A timedelta is a number of milliseconds.     *)
(***************************************************************************)
ZERO_SECS == 0

\* The instant of clock tick 0: a few milliseconds before a minute ends, so
\* that ticks carry into the seconds and minutes, and with a sub-millisecond
\* part, which datetime_to_int truncates.
Epoch == [year |-> 2018, month |-> 3, day |-> 27, hour |-> 14, minute |-> 43,
          second |-> 59, microsecond |-> 998500]

MsOfDay(d) == ((d.hour * 60 + d.minute) * 60 + d.second) * 1000
              + (d.microsecond \div 1000)

\* datetime + timedelta (ms milliseconds, of either sign), within the month.
AddMs(d, ms) ==
    LET total == MsOfDay(d) + ms
        days  == IF total >= 0 THEN total \div 86400000
                 ELSE -((86400000 - 1 - total) \div 86400000)
        rest  == total - days * 86400000
    IN [year        |-> d.year,
        month       |-> d.month,
        day         |-> d.day + days,
        hour        |-> rest \div 3600000,
        minute      |-> (rest \div 60000) % 60,
        second      |-> (rest \div 1000) % 60,
        microsecond |-> (rest % 1000) * 1000 + (d.microsecond % 1000)]

\* The datetimes within reach of the clock, worked out once.
Instants == [t \in (0 - MaxClock - 4)..(MaxClock + 4) |-> AddMs(Epoch, t)]

\* now() at clock tick t.
now(t) == IF t \in DOMAIN Instants THEN Instants[t] ELSE AddMs(Epoch, t)

\* datetime_to_int, as the program computes it.
DatetimeDigits(d) ==
    ParseInt(Fmt(d.year, 4) \o Fmt(d.month, 2) \o Fmt(d.day, 2)
             \o Fmt(d.hour, 2) \o Fmt(d.minute, 2) \o Fmt(d.second, 2)
             \o Fmt(d.microsecond \div 1000, 3))

\* Its values on the datetimes within reach of the clock, worked out once.
InstantDigits ==
    [d \in {Instants[t] : t \in DOMAIN Instants} |-> DatetimeDigits(d)]

datetime_to_int(d) ==
    IF d \in DOMAIN InstantDigits THEN InstantDigits[d] ELSE DatetimeDigits(d)

(***************************************************************************)
(* State and Status.                                                       *)
(***************************************************************************)
created == 1
waiting == 2
working == 3
finished == 4
canceled == 5
states == <<created, waiting, working, finished, canceled>>

\* Status.state_offset = 10^18, as the number of zeros it appends.
OffsetDigits == 18
max_attempts == 9

\* What a failed assertion (or any raised error) leaves in place of a value.
Failed == <<>>

\* A priority argument is an integer or a datetime.
IntPri(v) == [tag |-> "int", v |-> v]
DtPri(d) == [tag |-> "datetime", v |-> d]

\* self // state_offset
StateNum(s) ==
    IF Len(s) <= OffsetDigits THEN <<0>> ELSE SubSeq(s, 1, Len(s) - OffsetDigits)

\* Status.state: the State equal to self // state_offset; 0 when there is none
\* (the program's next() raises StopIteration).
state(s) ==
    LET num == StateNum(s)
    IN IF Len(num) = 1 /\ \E i \in 1..Len(states) : states[i] = num[1]
       THEN num[1] ELSE 0

\* Status.priority: int(format(self, '019d')[1:-1])
priority(s) ==
    LET str == ZeroPad(s, 19)
    IN ParseInt(SubSeq(str, 2, Len(str) - 1))

\* Status.attempts: self % 10
attempts(s) == s[Len(s)]

\* Status.minimum: state * state_offset
minimum(st) ==
    IF st = 0 THEN <<0>> ELSE NatDigits(st) \o [i \in 1..OffsetDigits |-> 0]

\* maximum without the - 1: the first status of the next state.
maximumNextState(st) == NatDigits(st + 1) \o [i \in 1..OffsetDigits |-> 0]

\* Status.maximum: (state + 1) * state_offset - 1
maximum(st) == ParseInt(Dec(NatDigits(st + 1) \o [i \in 1..OffsetDigits |-> 0]))

\* combine with the attempts put before the priority.
combineAttemptsFirst(st, pri, att) ==
    LET p == IF pri.tag = "datetime" THEN datetime_to_int(pri.v) ELSE pri.v
        result == Str(st) \o Str(att) \o ZeroPad(p, 17)
    IN IF Len(result) = 19 /\ \A i \in 1..Len(result) : result[i] # Minus
       THEN ParseInt(result) ELSE Failed

\* Status.combine
combine(st, pri, att) ==
    LET p == IF pri.tag = "datetime" THEN datetime_to_int(pri.v) ELSE pri.v
        result == Str(st) \o ZeroPad(p, 17) \o Str(att)
    IN IF Len(result) = 19 /\ \A i \in 1..Len(result) : result[i] # Minus
       THEN ParseInt(result) ELSE Failed

\* The per-state constructors Status.waiting(priority, attempts), ...
StatusOf(st, d, att) == combine(st, DtPri(d), att)

\* Python's s[i:j] on a string, 0 <= i <= j.
Slice(s, i, j) == SubSeq(s, i + 1, IF j < Len(s) THEN j ELSE Len(s))

RECURSIVE ToNat(_)
\* The number a nonempty string of digits denotes.
ToNat(s) == IF Len(s) = 1 THEN s[1]
            ELSE ToNat(SubSeq(s, 1, Len(s) - 1)) * 10 + s[Len(s)]

\* The days of a month.
DaysIn(year, month) ==
    IF month = 2
    THEN IF year % 4 = 0 /\ (year % 100 # 0 \/ year % 400 = 0) THEN 29 ELSE 28
    ELSE IF month \in {4, 6, 9, 11} THEN 30 ELSE 31

\* dt.datetime(year=int(..), ...) on the fields sliced out of a priority:
\* Failed when int('') or the constructor raises ValueError.
MakeDatetime(f) ==
    IF \E k \in DOMAIN f : f[k] = <<>> THEN Failed
    ELSE LET year == ToNat(f.year)     month == ToNat(f.month)
             day == ToNat(f.day)       hour == ToNat(f.hour)
             minute == ToNat(f.minute) second == ToNat(f.second)
         IN IF /\ year \in 1..9999 /\ month \in 1..12
               /\ day \in 1..DaysIn(year, month)
               /\ hour <= 23 /\ minute <= 59 /\ second <= 59
            THEN [year |-> year, month |-> month, day |-> day, hour |-> hour,
                  minute |-> minute, second |-> second,
                  microsecond |-> ToNat(f.millisecond) * 1000]
            ELSE Failed

\* Status.parse(datetime=flag): Failed when it raises.
parse(s, flag) ==
    LET p == priority(s)
        d == MakeDatetime([year   |-> Slice(p, 0, 4),   month  |-> Slice(p, 4, 6),
                           day    |-> Slice(p, 6, 8),   hour   |-> Slice(p, 8, 10),
                           minute |-> Slice(p, 10, 12), second |-> Slice(p, 12, 14),
                           millisecond |-> Slice(p, 14, 17)])
    IN IF flag /\ d = Failed THEN Failed
       ELSE IF state(s) = 0 THEN Failed
       ELSE [state |-> state(s),
             priority |-> IF flag THEN DtPri(d) ELSE IntPri(p),
             attempts |-> attempts(s)]

\* make_state of admin_actions: F(field) % offset + state * offset, as the
\* database computes it.
make_state(status, st) ==
    LET str == ZeroPad(status, OffsetDigits + 1)
    IN ParseInt(NatDigits(st) \o SubSeq(str, Len(str) - OffsetDigits + 1, Len(str)))

\* make_priority_now: F(field) / offset * offset + priority * 10 +
\* F(field) % 10, the division being the integers', with nw the value of now().
make_priority_now(status, nw) ==
    LET str == ZeroPad(status, OffsetDigits + 1)
    IN ParseInt(SubSeq(str, 1, Len(str) - OffsetDigits)
                \o ZeroPad(datetime_to_int(nw), OffsetDigits - 1)
                \o <<attempts(status)>>)

\* make_attempts_zero: F(field) / 10 * 10
make_attempts_zero(status) == [status EXCEPT ![Len(status)] = 0]

\* Status.filter: the keyword arguments, by their suffixes.
filter(st) == [gte |-> minimum(st), lte |-> maximum(st)]

(***************************************************************************)
(* The state of the system.                                                *)
(***************************************************************************)
VARIABLES
    store,      \* the table: the status field of every row
    clock,      \* the time, in ticks
    pc,         \* where each caller is: "idle" (outside run); in phase A
                \* "working_query", "reclaim", "waiting_now",
                \* "waiting_query", "claim" or "claim_save", by the statement
                \* it executes next; "action" (run called the action) or
                \* "save" (a handler of run set the local status; the
                \* finally clause has yet to save it); a caller that calls
                \* run only once ends as "none" (run returned None), "row"
                \* or "raise"
    worker,     \* run's local `worker`: the row a caller claimed, 0 for none
    wstatus,    \* the status field of the caller's local copy of that row
    wattempts,  \* run's local `attempts` as read at the claim
    params,     \* the retry, timeout and delay arguments of the call in
                \* progress
    nows,       \* the ticks of the now() read so far in the phase A in
                \* progress, in the order of the four reads
    txn,        \* the open transaction of phase A: the timed-out row its
                \* working query returned and locked, and the status it
                \* wrote to that row, which no other caller sees yet
    handled,    \* how the action of the call in progress ended, whether run
                \* will raise and, as history, the tick of the handler's now()
    admins,     \* the number of admin actions carried out
    request,    \* the make_priority_now in progress: its rows, and the tick
                \* of the now() it read; no rows when there is none
    ret,        \* what the step just taken gave its caller
    lost,       \* history: the row of the caller's lease was rewritten by
                \* another call or by an administrator
    reclaimed,  \* history: the caller's lease was reclaimed on timeout by
                \* the phase A of another call
    cfg,        \* the scenario: the inputs callers draw from (never changes)
    codec       \* the last call of a Status method made directly: its
                \* arguments and what it returned

vars == <<store, clock, pc, worker, wstatus, wattempts, params, nows, txn,
          handled, admins, request, ret, lost, reclaimed, cfg, codec>>

NoRow == 0
NoStatus == <<>>
NoParams == [retry |-> 0, timeout |-> 0, delay |-> 0]

\* The place of a now() that has not been read.
NoTick == 0 - 1
NoNows == <<NoTick, NoTick, NoTick, NoTick>>

\* txn when no transaction is open, or when it wrote nothing.
NoTxn == [row |-> NoRow, status |-> NoStatus]

\* What an action can do: return, raise Retry, Abort or Cancel (the first two
\* with an optional delay), raise another Exception or KeyboardInterrupt
\* ("fault"), or exit with SystemExit ("exit").
Outcome(k, h, d) == [kind |-> k, hasDelay |-> h, delay |-> d]
NoOutcome == Outcome("", FALSE, 0)

\* handled before the action ended.
NoHandled == [outcome |-> NoOutcome, raised |-> FALSE, at |-> 0]

\* request when no make_priority_now is in progress.
NoRequest == [rows |-> {}, at |-> 0]

\* ret when the step gave nothing to a caller: kind is "claim" after the
\* step that ends a phase A with a row claimed, "none", "row" or "raise" when
\* run returned or raised, "handler" after the action ended, "admin" after an
\* admin action.  After the step that ends a phase A, reclaimed is the row it
\* reclaimed, nows holds the ticks of the now() it read, in the order of the
\* four reads (NoTick for one it did not reach), and retry is the argument
\* of the call.
Fresh == [kind |-> "", row |-> NoRow, outcome |-> NoOutcome, reclaimed |-> NoRow,
          nows |-> <<>>, retry |-> 0]

\* codec before any Status method was called.
NoCodec == [op |-> "", st |-> 0, pri |-> IntPri(<<0>>), att |-> 0,
            status |-> Failed]

(***************************************************************************)
(* run(), phase A: the first `with transaction.atomic()` block.            *)
(***************************************************************************)
\* FirstRows in descending order: one of largest status.
FirstRowsDescending(st, S) == {r \in S : \A q \in S : IntLeq(st[q], st[r])}

\* The rows of S that order_by(field)[:1] may return: one of smallest status.
FirstRows(st, S) == {r \in S : \A q \in S : IntLeq(st[r], st[q])}

\* max_working, with n1 the value of now().
max_working(n1, timeout) == StatusOf(working, AddMs(n1, 0 - timeout), max_attempts)

\* max_waiting, with n3 the value of now().
max_waiting(n3) == StatusOf(waiting, n3, max_attempts)

\* working_query: field >= minimum(working), field <= max_working.
WorkingQuery(st, maxWorking) ==
    {r \in DOMAIN st : IntLeq(minimum(working), st[r]) /\ IntLeq(st[r], maxWorking)}

\* WaitingQuery with the range starting a state too low, at created.
WaitingQueryFromCreated(st, maxWaiting) ==
    {r \in DOMAIN st : IntLeq(minimum(created), st[r]) /\ IntLeq(st[r], maxWaiting)}

\* waiting_query: field >= minimum(waiting), field <= max_waiting.
WaitingQuery(st, maxWaiting) ==
    {r \in DOMAIN st : IntLeq(minimum(waiting), st[r]) /\ IntLeq(st[r], maxWaiting)}

\* ReclaimStatus with the attempt not counted.
ReclaimStatusUncounted(status, retry, delay, nw) ==
    StatusOf(IF attempts(status) + 1 <= retry THEN waiting ELSE canceled,
             AddMs(nw, delay), attempts(status))

\* ReclaimStatus with the delay left out.
ReclaimStatusNoDelay(status, retry, delay, nw) ==
    StatusOf(IF attempts(status) + 1 <= retry THEN waiting ELSE canceled,
             nw, attempts(status) + 1)

\* The status a timed-out worker row gets (Failed when combine's assertion
\* fails), with nw the value of now().
ReclaimStatus(status, retry, delay, nw) ==
    LET att == attempts(status) + 1
        st  == IF att <= retry THEN waiting ELSE canceled
    IN StatusOf(st, AddMs(nw, delay), att)

\* ClaimStatus with the state left as it was: the row stays waiting.
ClaimStatusStaysWaiting(status, nw) == StatusOf(waiting, nw, attempts(status))

\* The status the claimed row gets.
ClaimStatus(status, nw) == StatusOf(working, nw, attempts(status))

\* ReclaimRow with a lease that cannot be reclaimed passed over.
ReclaimRowSkipsFailure(status, retry, delay, nw) ==
    LET new == IF state(status) # working THEN Failed
               ELSE ReclaimStatus(status, retry, delay, nw)
    IN [ok |-> TRUE, status |-> IF new # Failed THEN new ELSE status]

\* The body of the loop over the working query, on the status of the row the
\* query returned, with nw the value of now(): whether it goes through (no
\* assertion fails), and the status the row is then saved with.
ReclaimRow(status, retry, delay, nw) ==
    LET new == IF state(status) # working THEN Failed
               ELSE ReclaimStatus(status, retry, delay, nw)
    IN [ok |-> new # Failed, status |-> IF new # Failed THEN new ELSE status]

\* The reclaim part of a phase A that no other caller's step falls into, on
\* table st: the outcomes [ok, store, reclaimed].
ReclaimPart(st, retry, timeout, delay, n1, n2) ==
    LET stale == FirstRows(st, WorkingQuery(st, max_working(n1, timeout)))
    IN IF stale = {}
       THEN {[ok |-> TRUE, store |-> st, reclaimed |-> NoRow]}
       ELSE {LET res == ReclaimRow(st[w], retry, delay, n2)
             IN [ok |-> res.ok, store |-> [st EXCEPT ![w] = res.status],
                 reclaimed |-> w] : w \in stale}

\* The claim part of such a phase A, after the reclaim part ended as `rc`.
ClaimPart(rc, n3, n4) ==
    LET waiters == FirstRows(rc.store, WaitingQuery(rc.store, max_waiting(n3)))
    IN IF ~rc.ok
       THEN {[kind |-> "raise", store |-> rc.store, row |-> NoRow,
              reclaimed |-> rc.reclaimed]}
       ELSE IF waiters = {}
       THEN {[kind |-> "none", store |-> rc.store, row |-> NoRow,
              reclaimed |-> rc.reclaimed]}
       ELSE {IF state(rc.store[x]) # waiting
             THEN [kind |-> "raise", store |-> rc.store, row |-> NoRow,
                   reclaimed |-> rc.reclaimed]
             ELSE [kind |-> "claim",
                   store |-> [rc.store EXCEPT ![x] = ClaimStatus(rc.store[x], n4)],
                   row |-> x, reclaimed |-> rc.reclaimed] : x \in waiters}

\* A phase A that no other caller's step falls into, on table st: every way
\* it can end, given the four values now() returns in it.
PhaseA(st, retry, timeout, delay, n1, n2, n3, n4) ==
    UNION {ClaimPart(rc, n3, n4) :
           rc \in ReclaimPart(st, retry, timeout, delay, n1, n2)}

\* assert 0 <= retry <= 8
ValidRetry(retry) == 0 <= retry /\ retry <= 8

(***************************************************************************)
(* run(), phase B: the action's outcome and the status it resolves to.     *)
(***************************************************************************)
\* The delay in force when the action raised Retry or Abort: the signal's
\* own if it has one, else run's.
SignalDelay(o, delay) == IF o.hasDelay THEN o.delay ELSE delay

\* ResolveRetry with the attempt counted.
ResolveRetryCounted(o, a1, delay, nw) ==
    StatusOf(waiting, AddMs(nw, SignalDelay(o, delay)), a1)

\* except Retry: back to waiting, the attempt not counted.  a1 is the local
\* `attempts` (the attempts read at the claim, plus one), nw is now().
ResolveRetry(o, a1, delay, nw) ==
    StatusOf(waiting, AddMs(nw, SignalDelay(o, delay)), a1 - 1)

\* except Abort
ResolveAbort(o, a1, retry, delay, nw) ==
    StatusOf(IF a1 <= retry THEN waiting ELSE canceled,
             AddMs(nw, IF a1 <= retry THEN SignalDelay(o, delay) ELSE ZERO_SECS),
             a1)

\* except Cancel
ResolveCancel(a1, nw) == StatusOf(canceled, nw, a1)

\* ResolveFault with the budget off by one: < for <=.
ResolveFaultStrict(a1, retry, delay, nw) ==
    StatusOf(IF a1 < retry THEN waiting ELSE canceled,
             AddMs(nw, IF a1 < retry THEN delay ELSE ZERO_SECS), a1)

\* ResolveFault with one retry more than the budget.
ResolveFaultLenient(a1, retry, delay, nw) ==
    StatusOf(IF a1 <= retry + 1 THEN waiting ELSE canceled,
             AddMs(nw, IF a1 <= retry + 1 THEN delay ELSE ZERO_SECS), a1)

\* except (KeyboardInterrupt, Exception)
ResolveFault(a1, retry, delay, nw) ==
    StatusOf(IF a1 <= retry THEN waiting ELSE canceled,
             AddMs(nw, IF a1 <= retry THEN delay ELSE ZERO_SECS), a1)

\* else: the action returned
ResolveSuccess(a1, nw) == StatusOf(finished, nw, a1)

\* The try statement of run: the local row's new status and whether run
\* raises, for outcome o of the action, att the attempts read at the claim,
\* nw the value of now() and status the local row's status (the lease).  When
\* combine fails in a handler, or the action exits, the status stays as it is
\* and the finally clause saves it so.
Resolution(o, att, retry, delay, nw, status) ==
    LET a1 == att + 1
        new ==
          CASE o.kind = "retry" -> ResolveRetry(o, a1, delay, nw)
            [] o.kind = "abort" -> ResolveAbort(o, a1, retry, delay, nw)
            [] o.kind = "cancel" -> ResolveCancel(a1, nw)
            [] o.kind = "fault" -> ResolveFault(a1, retry, delay, nw)
            [] o.kind = "success" -> ResolveSuccess(a1, nw)
            [] OTHER -> status
    IN [status |-> IF new = Failed THEN status ELSE new,
        raised |-> new = Failed \/ o.kind \in {"fault", "exit"}]

(***************************************************************************)
(* Scenarios: the callers, and the inputs they draw from.                  *)
(***************************************************************************)
AllOutcomes ==
    {Outcome("success", FALSE, 0), Outcome("retry", FALSE, 0),
     Outcome("retry", TRUE, 2), Outcome("abort", FALSE, 0),
     Outcome("abort", TRUE, 2), Outcome("cancel", FALSE, 0),
     Outcome("fault", FALSE, 0), Outcome("exit", FALSE, 0)}

\* Two concurrent callers looping on run, over one row.
General == [calls |-> {1, 2}, once |-> FALSE,
            retries |-> {1}, timeouts |-> {1}, delays |-> {0, 1},
            outcomes |-> {o \in AllOutcomes : ~o.hasDelay}]

\* Callers that each call run once, with a timeout no lease can reach.
Race == [calls |-> Calls, once |-> TRUE,
         retries |-> {1}, timeouts |-> {MaxClock + 1}, delays |-> {0},
         outcomes |-> {Outcome("success", FALSE, 0), Outcome("fault", FALSE, 0)}]

\* One caller looping on run with retry = r, no delay, and an action that
\* always raises an exception.
Budget(r) == [calls |-> {1}, once |-> FALSE,
              retries |-> {r}, timeouts |-> {1}, delays |-> {0},
              outcomes |-> {Outcome("fault", FALSE, 0)}]

\* One caller looping on run, with any arguments and any action.
Sequential == [calls |-> {1}, once |-> FALSE,
               retries |-> {0, 1}, timeouts |-> {1}, delays |-> {0, 1},
               outcomes |-> AllOutcomes]

\* Statuses the application gives its rows: the default (waiting, now, no
\* attempts), created, scheduled two ticks ahead, waiting with nine attempts
\* on record, and a lease forced in by hand.
InitStatuses ==
    {StatusOf(waiting, now(0), 0), StatusOf(created, now(0), 0),
     StatusOf(waiting, now(2), 0), StatusOf(waiting, now(0), 9),
     StatusOf(working, now(0), 0)}

\* Statuses run will not touch before the clock stops: finished, and
\* scheduled beyond the last tick.
IdleStatuses ==
    {StatusOf(finished, now(0), 1), StatusOf(waiting, now(MaxClock + 2), 0)}

(***************************************************************************)
(* The steps.                                                              *)
(***************************************************************************)
InitCalls ==
    /\ clock = 0
    /\ pc = [c \in Calls |-> "idle"]
    /\ worker = [c \in Calls |-> NoRow]
    /\ wstatus = [c \in Calls |-> NoStatus]
    /\ wattempts = [c \in Calls |-> 0]
    /\ params = [c \in Calls |-> NoParams]
    /\ nows = [c \in Calls |-> NoNows]
    /\ txn = [c \in Calls |-> NoTxn]
    /\ handled = [c \in Calls |-> NoHandled]
    /\ admins = 0
    /\ request = NoRequest
    /\ ret = Fresh
    /\ lost = [c \in Calls |-> FALSE]
    /\ reclaimed = [c \in Calls |-> FALSE]
    /\ codec = NoCodec

\* One row as the application's default gives it: waiting, now, no attempts.
Init ==
    /\ InitCalls
    /\ cfg = General
    /\ store = [r \in {1} |-> StatusOf(waiting, now(0), 0)]

\* Caller c is in phase B of run: it claimed a row and has yet to save it.
InRun(c) == pc[c] \in {"action", "save"}

\* The rows the open transaction of caller c holds locked: the row its
\* working query returned and the row its waiting query returned.
Locks(c) ==
    (IF txn[c].row # NoRow THEN {txn[c].row} ELSE {})
    \cup (IF pc[c] \in {"claim", "claim_save"} THEN {worker[c]} ELSE {})

\* The rows locked by a transaction other than caller c's.
Locked(c) == UNION {Locks(d) : d \in Calls \ {c}}

\* The table as the open transaction of caller c sees it: what the others
\* committed, and its own write.
View(c) ==
    IF txn[c].status = NoStatus THEN store
    ELSE [store EXCEPT ![txn[c].row] = txn[c].status]

\* The callers other than c in phase B of run on a row of S.
Others(c, S) == {d \in Calls \ {c} : InRun(d) /\ worker[d] \in S}

\* Time passes.
Tick ==
    /\ clock < MaxClock
    /\ clock' = clock + 1
    /\ ret' = Fresh
    /\ UNCHANGED <<store, pc, worker, wstatus, wattempts, params, nows, txn,
                   handled, admins, request, lost, reclaimed, cfg, codec>>

\* Where a caller is after run returned or raised.
After(kind) == IF cfg.once THEN kind ELSE "idle"

\* Caller c calls run: the assertion on retry, which raises before any row
\* is read, and the first now(), for max_working.
RunStart(c) ==
    /\ c \in cfg.calls
    /\ pc[c] = "idle"
    /\ \E retry \in cfg.retries, timeout \in cfg.timeouts, delay \in cfg.delays :
        IF ValidRetry(retry)
        THEN /\ pc' = [pc EXCEPT ![c] = "working_query"]
             /\ params' = [params EXCEPT ![c] = [retry |-> retry,
                                                 timeout |-> timeout,
                                                 delay |-> delay]]
             /\ nows' = [nows EXCEPT ![c] = <<clock, NoTick, NoTick, NoTick>>]
             /\ ret' = Fresh
        ELSE /\ pc' = [pc EXCEPT ![c] = After("raise")]
             /\ ret' = [kind |-> "raise", row |-> NoRow, outcome |-> NoOutcome,
                        reclaimed |-> NoRow, nows |-> NoNows, retry |-> retry]
             /\ UNCHANGED <<params, nows>>
    /\ UNCHANGED <<store, clock, worker, wstatus, wattempts, txn, handled,
                   admins, request, lost, reclaimed, cfg, codec>>

\* The working query is executed: the first of the timed-out rows, if any,
\* is returned and locked.  The query waits while that row is locked by
\* another transaction.
RunWorkingQuery(c) ==
    /\ pc[c] = "working_query"
    /\ LET stale == FirstRows(store, WorkingQuery(store,
                        max_working(now(nows[c][1]), params[c].timeout)))
       IN IF stale = {}
          THEN /\ pc' = [pc EXCEPT ![c] = "waiting_now"]
               /\ txn' = txn
          ELSE \E w \in stale \ Locked(c) :
                /\ pc' = [pc EXCEPT ![c] = "reclaim"]
                /\ txn' = [txn EXCEPT ![c] = [row |-> w, status |-> NoStatus]]
    /\ ret' = Fresh
    /\ UNCHANGED <<store, clock, worker, wstatus, wattempts, params, nows,
                   handled, admins, request, lost, reclaimed, cfg, codec>>

\* The body of the loop, on the row the working query returned: the second
\* now() and the save of the row's new status, inside the transaction.  A
\* failed assertion ends run: the transaction is rolled back.
RunReclaim(c) ==
    /\ pc[c] = "reclaim"
    /\ LET res == ReclaimRow(store[txn[c].row], params[c].retry, params[c].delay,
                             now(clock))
           read == [nows[c] EXCEPT ![2] = clock]
       IN IF res.ok
          THEN /\ pc' = [pc EXCEPT ![c] = "waiting_now"]
               /\ txn' = [txn EXCEPT ![c].status = res.status]
               /\ nows' = [nows EXCEPT ![c] = read]
               /\ params' = params
               /\ ret' = Fresh
          ELSE /\ pc' = [pc EXCEPT ![c] = After("raise")]
               /\ txn' = [txn EXCEPT ![c] = NoTxn]
               /\ nows' = [nows EXCEPT ![c] = NoNows]
               /\ params' = [params EXCEPT ![c] = NoParams]
               /\ ret' = [kind |-> "raise", row |-> NoRow, outcome |-> NoOutcome,
                          reclaimed |-> txn[c].row, nows |-> read,
                          retry |-> params[c].retry]
    /\ UNCHANGED <<store, clock, worker, wstatus, wattempts, handled, admins,
                   request, lost, reclaimed, cfg, codec>>

\* The third now(), for max_waiting.
RunWaitingNow(c) ==
    /\ pc[c] = "waiting_now"
    /\ pc' = [pc EXCEPT ![c] = "waiting_query"]
    /\ nows' = [nows EXCEPT ![c][3] = clock]
    /\ ret' = Fresh
    /\ UNCHANGED <<store, clock, worker, wstatus, wattempts, params, txn,
                   handled, admins, request, lost, reclaimed, cfg, codec>>

\* The waiting query is executed: the first of the waiting rows that are due
\* is returned and locked, the query waiting while that row is locked by
\* another transaction.  With no such row run returns None: the transaction
\* commits, and the others see the row it reclaimed.
RunWaitingQuery(c) ==
    /\ pc[c] = "waiting_query"
    /\ LET view == View(c)
           waiters == FirstRows(view, WaitingQuery(view,
                          max_waiting(now(nows[c][3]))))
           ended == Others(c, Locks(c))
       IN IF waiters = {}
          THEN /\ store' = view
               /\ pc' = [pc EXCEPT ![c] = After("none")]
               /\ worker' = worker
               /\ params' = [params EXCEPT ![c] = NoParams]
               /\ nows' = [nows EXCEPT ![c] = NoNows]
               /\ txn' = [txn EXCEPT ![c] = NoTxn]
               /\ ret' = [kind |-> "none", row |-> NoRow, outcome |-> NoOutcome,
                          reclaimed |-> txn[c].row, nows |-> nows[c],
                          retry |-> params[c].retry]
               /\ lost' = [d \in Calls |-> lost[d] \/ d \in ended]
               /\ reclaimed' = [d \in Calls |-> reclaimed[d] \/ d \in ended]
          ELSE \E x \in waiters \ Locked(c) :
                /\ worker' = [worker EXCEPT ![c] = x]
                /\ pc' = [pc EXCEPT ![c] = "claim"]
                /\ ret' = Fresh
                /\ UNCHANGED <<store, params, nows, txn, lost, reclaimed>>
    /\ UNCHANGED <<clock, wstatus, wattempts, handled, admins, request, cfg,
                   codec>>

\* The row the waiting query returned is made a lease on the caller's copy
\* of it: the assertion on its state, its attempts, and the fourth now().
RunClaimNow(c) ==
    /\ pc[c] = "claim"
    /\ LET status == View(c)[worker[c]]
           read == [nows[c] EXCEPT ![4] = clock]
       IN IF state(status) = waiting
          THEN /\ pc' = [pc EXCEPT ![c] = "claim_save"]
               /\ wstatus' = [wstatus EXCEPT ![c] = ClaimStatus(status, now(clock))]
               /\ wattempts' = [wattempts EXCEPT ![c] = attempts(status)]
               /\ nows' = [nows EXCEPT ![c] = read]
               /\ ret' = Fresh
               /\ UNCHANGED <<worker, params, txn>>
          ELSE /\ pc' = [pc EXCEPT ![c] = After("raise")]
               /\ worker' = [worker EXCEPT ![c] = NoRow]
               /\ txn' = [txn EXCEPT ![c] = NoTxn]
               /\ nows' = [nows EXCEPT ![c] = NoNows]
               /\ params' = [params EXCEPT ![c] = NoParams]
               /\ ret' = [kind |-> "raise", row |-> NoRow, outcome |-> NoOutcome,
                          reclaimed |-> txn[c].row, nows |-> nows[c],
                          retry |-> params[c].retry]
               /\ UNCHANGED <<wstatus, wattempts>>
    /\ UNCHANGED <<store, clock, handled, admins, request, lost, reclaimed, cfg,
                   codec>>

\* The lease is saved and the transaction commits: the others see the lease
\* and the row this call reclaimed, and run calls the action.
RunClaimSave(c) ==
    /\ pc[c] = "claim_save"
    /\ store' = [View(c) EXCEPT ![worker[c]] = wstatus[c]]
    /\ pc' = [pc EXCEPT ![c] = "action"]
    /\ nows' = [nows EXCEPT ![c] = NoNows]
    /\ txn' = [txn EXCEPT ![c] = NoTxn]
    /\ ret' = [kind |-> "claim", row |-> worker[c], outcome |-> NoOutcome,
               reclaimed |-> txn[c].row, nows |-> nows[c],
               retry |-> params[c].retry]
    /\ lost' = [d \in Calls |-> d # c /\ (lost[d] \/ d \in Others(c, Locks(c)))]
    /\ reclaimed' = [d \in Calls |->
                       d # c /\ (reclaimed[d] \/ d \in Others(c, {txn[c].row}))]
    /\ UNCHANGED <<clock, worker, wstatus, wattempts, params, handled, admins,
                   request, cfg, codec>>

\* Caller c's action ends and a handler of run sets the status of the local
\* row, from one read of now(): the try statement of phase B.  Nothing is
\* written to the table yet, and no lock is held.
Handle(c) ==
    /\ pc[c] = "action"
    /\ \E o \in cfg.outcomes :
        LET res == Resolution(o, wattempts[c], params[c].retry, params[c].delay,
                              now(clock), wstatus[c])
        IN /\ wstatus' = [wstatus EXCEPT ![c] = res.status]
           /\ handled' = [handled EXCEPT
                            ![c] = [outcome |-> o, raised |-> res.raised,
                                    at |-> clock]]
           /\ ret' = [kind |-> "handler", row |-> worker[c], outcome |-> o,
                      reclaimed |-> NoRow, nows |-> <<>>, retry |-> 0]
    /\ pc' = [pc EXCEPT ![c] = "save"]
    /\ UNCHANGED <<store, clock, worker, wattempts, params, nows, txn, admins,
                   request, lost, reclaimed, cfg, codec>>

\* The finally clause: caller c saves its local row, whatever the table holds
\* by now, and run returns the row or raises.  The save waits while the row
\* is locked by a transaction.
Save(c) ==
    /\ pc[c] = "save"
    /\ worker[c] \notin Locked(c)
    /\ LET kind == IF handled[c].raised THEN "raise" ELSE "row"
       IN /\ store' = [store EXCEPT ![worker[c]] = wstatus[c]]
          /\ ret' = [kind |-> kind, row |-> worker[c],
                     outcome |-> handled[c].outcome, reclaimed |-> NoRow,
                     nows |-> <<>>, retry |-> 0]
          /\ pc' = [pc EXCEPT ![c] = After(kind)]
    /\ worker' = [worker EXCEPT ![c] = NoRow]
    /\ wstatus' = [wstatus EXCEPT ![c] = NoStatus]
    /\ wattempts' = [wattempts EXCEPT ![c] = 0]
    /\ params' = [params EXCEPT ![c] = NoParams]
    /\ handled' = [handled EXCEPT ![c] = NoHandled]
    /\ lost' = [d \in Calls |-> d # c /\ (lost[d] \/ d \in Others(c, {worker[c]}))]
    /\ reclaimed' = [reclaimed EXCEPT ![c] = FALSE]
    /\ UNCHANGED <<clock, nows, txn, admins, request, cfg, codec>>

\* The rows locked by the open transaction of some caller.
LockedRows == UNION {Locks(d) : d \in Calls}

\* The admin actions that are one UPDATE, on the rows S: make_state and
\* make_attempts_zero.  The new status of each row is computed in the
\* database from the status it has; the UPDATE waits while one of the rows
\* is locked.  k is the action's place in the list admin_actions returns.
Admin ==
    /\ admins < MaxAdmin
    /\ \E k \in (1..Len(states)) \cup {Len(states) + 2}, S \in SUBSET DOMAIN store :
        LET upd(status) ==
              IF k <= Len(states) THEN make_state(status, states[k])
              ELSE make_attempts_zero(status)
        IN /\ S # {}
           /\ S \cap LockedRows = {}
           /\ store' = [r \in DOMAIN store |->
                          IF r \in S THEN upd(store[r]) ELSE store[r]]
           /\ lost' = [d \in Calls |->
                          lost[d] \/ (/\ InRun(d) /\ worker[d] \in S
                                      /\ store'[worker[d]] # store[worker[d]])]
    /\ admins' = admins + 1
    /\ ret' = [kind |-> "admin", row |-> NoRow, outcome |-> NoOutcome,
               reclaimed |-> NoRow, nows |-> <<>>, retry |-> 0]
    /\ UNCHANGED <<clock, pc, worker, wstatus, wattempts, params, nows, txn,
                   handled, request, reclaimed, cfg, codec>>

\* make_priority_now, on the rows S, up to its read of now(): the priority
\* is computed in the view, before the UPDATE and under no lock.
AdminNow ==
    /\ admins < MaxAdmin
    /\ request = NoRequest
    /\ \E S \in SUBSET DOMAIN store :
        /\ S # {}
        /\ request' = [rows |-> S, at |-> clock]
    /\ admins' = admins + 1
    /\ ret' = [kind |-> "admin", row |-> NoRow, outcome |-> NoOutcome,
               reclaimed |-> NoRow, nows |-> <<clock>>, retry |-> 0]
    /\ UNCHANGED <<store, clock, pc, worker, wstatus, wattempts, params, nows,
                   txn, handled, lost, reclaimed, cfg, codec>>

\* make_priority_now, its UPDATE: the priority read earlier is written into
\* the status each row has by now.  The UPDATE waits while one of the rows
\* is locked.
AdminUpdate ==
    /\ request # NoRequest
    /\ request.rows \cap LockedRows = {}
    /\ store' = [r \in DOMAIN store |->
                   IF r \in request.rows
                   THEN make_priority_now(store[r], now(request.at))
                   ELSE store[r]]
    /\ lost' = [d \in Calls |->
                   lost[d] \/ (/\ InRun(d) /\ worker[d] \in request.rows
                               /\ store'[worker[d]] # store[worker[d]])]
    /\ request' = NoRequest
    /\ ret' = [kind |-> "admin", row |-> NoRow, outcome |-> NoOutcome,
               reclaimed |-> NoRow, nows |-> <<>>, retry |-> 0]
    /\ UNCHANGED <<clock, pc, worker, wstatus, wattempts, params, nows, txn,
                   handled, admins, reclaimed, cfg, codec>>

\* The calls of run alone: no administrator acts on the table.
NextRun ==
    \/ Tick
    \/ \E c \in Calls : RunStart(c)
    \/ \E c \in Calls : RunWorkingQuery(c)
    \/ \E c \in Calls : RunReclaim(c)
    \/ \E c \in Calls : RunWaitingNow(c)
    \/ \E c \in Calls : RunWaitingQuery(c)
    \/ \E c \in Calls : RunClaimNow(c)
    \/ \E c \in Calls : RunClaimSave(c)
    \/ \E c \in Calls : Handle(c)
    \/ \E c \in Calls : Save(c)

\* The calls of run over a table on which no lease times out: the working
\* query returns no row, and the body of its loop is never entered.
NextClaim ==
    \/ Tick
    \/ \E c \in Calls : RunStart(c)
    \/ \E c \in Calls : RunWorkingQuery(c)
    \/ \E c \in Calls : RunWaitingNow(c)
    \/ \E c \in Calls : RunWaitingQuery(c)
    \/ \E c \in Calls : RunClaimNow(c)
    \/ \E c \in Calls : RunClaimSave(c)
    \/ \E c \in Calls : Handle(c)
    \/ \E c \in Calls : Save(c)

Next ==
    \/ Tick
    \/ \E c \in Calls : RunStart(c)
    \/ \E c \in Calls : RunWorkingQuery(c)
    \/ \E c \in Calls : RunReclaim(c)
    \/ \E c \in Calls : RunWaitingNow(c)
    \/ \E c \in Calls : RunWaitingQuery(c)
    \/ \E c \in Calls : RunClaimNow(c)
    \/ \E c \in Calls : RunClaimSave(c)
    \/ \E c \in Calls : Handle(c)
    \/ \E c \in Calls : Save(c)
    \/ Admin
    \/ AdminNow
    \/ AdminUpdate

Spec == Init /\ [][Next]_vars

\* The callers of run with no administrator beside them.
SpecRun == Init /\ [][NextRun]_vars

\* Callers race for row 1, the only row that can be claimed: the other rows
\* are all finished, or all scheduled beyond the last tick.
InitRace ==
    /\ InitCalls
    /\ cfg = Race
    /\ \E rest \in IdleStatuses :
          store = [r \in Rows |-> IF r = 1 THEN StatusOf(waiting, now(0), 0)
                                  ELSE rest]

SpecRace == InitRace /\ [][NextClaim]_vars

\* The retry budget: one row, one caller, an action that always fails.
InitBudget ==
    /\ InitCalls
    /\ \E r \in 0..8 : cfg = Budget(r)
    /\ store = [r \in {1} |-> StatusOf(waiting, now(0), 0)]

SpecBudget == InitBudget /\ [][NextClaim]_vars

\* One caller at a time, over one row that starts in any of InitStatuses.
InitSeq ==
    /\ InitCalls
    /\ cfg = Sequential
    /\ store \in [{1} -> InitStatuses]

SpecSeq == InitSeq /\ [][NextRun]_vars

\* One caller looping on run with retry = r and delay = d, and an action
\* that returns.
Reclaiming(r, d) == [calls |-> {1}, once |-> FALSE,
                     retries |-> {r}, timeouts |-> {1}, delays |-> {d},
                     outcomes |-> {Outcome("success", FALSE, 0)}]

\* What the row next to a forced lease holds: nothing to do (finished),
\* work that is due, or work scheduled beyond the last tick.
BesideStatuses ==
    {StatusOf(finished, now(0), 1), StatusOf(waiting, now(0 - 1), 0),
     StatusOf(waiting, now(MaxClock + 2), 0)}

\* Timeout reclaim: row 1 is a lease forced in by hand, as the tests do,
\* started now or two ticks ago, with 0, 1 or 8 attempts on record.  The
\* delay is none, or two ticks: as long as the clock has to run, so that a
\* phase A may be over before the delay or last as long.
InitReclaim ==
    /\ InitCalls
    /\ \E r \in {0, 1, 2}, d \in {0, 2} : cfg = Reclaiming(r, d)
    /\ \E start \in {0 - 2, 0}, a \in {0, 1, 8}, beside \in BesideStatuses :
          store = [r \in {1, 2} |-> IF r = 1 THEN StatusOf(working, now(start), a)
                                    ELSE beside]

SpecReclaim == InitReclaim /\ [][NextRun]_vars

\* One caller looping on run with the default retry and no delay, and an
\* action that returns.
Serving == [calls |-> {1}, once |-> FALSE,
            retries |-> {3}, timeouts |-> {1}, delays |-> {0},
            outcomes |-> {Outcome("success", FALSE, 0)}]

\* The ticks, none after the first now(), the rows of a table were queued at.
QueuedAt == (0 - NumRows - 1)..0

\* A table of rows queued at distinct times, each waiting or created; the
\* first row may have attempts on record.
InitTable ==
    /\ InitCalls
    /\ cfg = Serving
    /\ \E at \in [Rows -> QueuedAt], st \in [Rows -> {waiting, created}],
          a \in {0, 3} :
        /\ \A r, q \in Rows : r # q => at[r] # at[q]
        /\ store = [r \in Rows |->
                      StatusOf(st[r], now(at[r]), IF r = 1 THEN a ELSE 0)]

SpecTable == InitTable /\ [][NextClaim]_vars

\* One worker after another on the same table: an action returns, or its
\* worker dies in it (SystemExit) and the next worker calls run.
Dying == [calls |-> {1}, once |-> FALSE,
          retries |-> {0, 1}, timeouts |-> {1}, delays |-> {0, 1},
          outcomes |-> {Outcome("success", FALSE, 0), Outcome("exit", FALSE, 0)}]

\* Statuses of the rows the workers find: leases left by dead workers two
\* ticks ago, and rows waiting; with no attempts on record, or nine.
LeftStatuses ==
    {StatusOf(working, now(0 - 2), 0), StatusOf(working, now(0 - 2), 9),
     StatusOf(waiting, now(0), 0), StatusOf(waiting, now(0), 9)}

InitLive ==
    /\ InitCalls
    /\ cfg = Dying
    /\ store \in [{1, 2} -> LeftStatuses]

\* A step of a call of run by caller c.
RunStep(c) ==
    \/ RunStart(c)
    \/ RunWorkingQuery(c)
    \/ RunReclaim(c)
    \/ RunWaitingNow(c)
    \/ RunWaitingQuery(c)
    \/ RunClaimNow(c)
    \/ RunClaimSave(c)
    \/ Handle(c)
    \/ Save(c)

\* Caller c can take a step of a call of run, and the step changes the state:
\* this is ENABLED <<RunStep(c)>>_vars.  Every step but RunStart moves pc[c];
\* a RunStart that raises leaves a caller that calls run again and again
\* idle, and then changes nothing but ret.  A query, and the save, wait
\* while the row they need is locked by another transaction.
StepEnabled(c) ==
    \/ /\ c \in cfg.calls /\ pc[c] = "idle"
       /\ cfg.timeouts # {} /\ cfg.delays # {}
       /\ \E retry \in cfg.retries :
             \/ ValidRetry(retry)
             \/ cfg.once
             \/ ret # [kind |-> "raise", row |-> NoRow, outcome |-> NoOutcome,
                       reclaimed |-> NoRow, nows |-> NoNows, retry |-> retry]
    \/ /\ pc[c] = "working_query"
       /\ LET stale == FirstRows(store, WorkingQuery(store,
                           max_working(now(nows[c][1]), params[c].timeout)))
          IN stale = {} \/ stale \ Locked(c) # {}
    \/ pc[c] \in {"reclaim", "waiting_now", "claim", "claim_save"}
    \/ /\ pc[c] = "waiting_query"
       /\ LET waiters == FirstRows(View(c), WaitingQuery(View(c),
                             max_waiting(now(nows[c][3]))))
          IN waiters = {} \/ waiters \ Locked(c) # {}
    \/ pc[c] = "action" /\ cfg.outcomes # {}
    \/ pc[c] = "save" /\ worker[c] \notin Locked(c)

\* Time advances while it can, and the steps of the calls of run are taken
\* when they can be (weak fairness of RunStep, with StepEnabled for the
\* ENABLED in it): run is called again and again, a call goes on to its end,
\* and an action ends, by returning or by the death of its worker.  The
\* scenarios this is used in have one caller: one step of it can be taken at
\* any time, so that fairness of the steps together is fairness of each.
Fairness ==
    /\ WF_vars(Tick)
    /\ \/ []<>(~\E c \in Calls : StepEnabled(c))
       \/ []<><<\E c \in Calls : RunStep(c)>>_vars

SpecLive == InitLive /\ [][NextRun]_vars /\ Fairness

\* One caller looping on run with the default retry, a delay of none or of
\* two ticks, and an action that returns.
Sweeping == [calls |-> {1}, once |-> FALSE,
             retries |-> {3}, timeouts |-> {1}, delays |-> {0, 2},
             outcomes |-> {Outcome("success", FALSE, 0)}]

\* Each of two rows is a lease left by a dead worker, three or two ticks ago, with
\* 0, 1 or 2 attempts on record: leases of the same start and different
\* attempts are among them.
InitStale ==
    /\ InitCalls
    /\ cfg = Sweeping
    /\ store \in [{1, 2} -> {StatusOf(working, now(start), a) :
                             start \in {0 - 3, 0 - 2}, a \in {0, 1, 2}}]

SpecStale == InitStale /\ [][NextRun]_vars

\* Two concurrent callers looping on run with the largest retry there is, or
\* with one too large or negative, no delay, and a timeout of zero: a lease
\* has timed out at every now() that is not before its start.  The action
\* ends in any way.
Counting == [calls |-> {1, 2}, once |-> FALSE,
             retries |-> {0 - 1, 8, 9}, timeouts |-> {0}, delays |-> {0},
             outcomes |-> {o \in AllOutcomes : ~o.hasDelay}]

\* One row with no attempts on record, as the default gives it.
InitCount ==
    /\ InitCalls
    /\ cfg = Counting
    /\ store = [r \in {1} |-> StatusOf(waiting, now(0), 0)]

\* The calls of run over two instants: time passes once, at any point of
\* any call.  A now() read before it is earlier than the lease or the
\* priority another caller writes after it, so that a working query may
\* pass over a lease that is out, and a waiting query over a row that
\* waits.
NextCount ==
    \/ (clock = 0 /\ Tick)
    \/ \E c \in Calls : RunStart(c)
    \/ \E c \in Calls : RunWorkingQuery(c)
    \/ \E c \in Calls : RunReclaim(c)
    \/ \E c \in Calls : RunWaitingNow(c)
    \/ \E c \in Calls : RunWaitingQuery(c)
    \/ \E c \in Calls : RunClaimNow(c)
    \/ \E c \in Calls : RunClaimSave(c)
    \/ \E c \in Calls : Handle(c)
    \/ \E c \in Calls : Save(c)

SpecCount == InitCount /\ [][NextCount]_vars

\* The table of SpecLive, with no assumption on how often run is called.
SpecLeft == InitLive /\ [][NextRun]_vars

\* One caller looping on run, with an action that returns or sends the row
\* back to the queue: Retry, Abort, an exception.
Requeuing == [calls |-> {1}, once |-> FALSE,
              retries |-> {1}, timeouts |-> {1}, delays |-> {0},
              outcomes |-> {Outcome("success", FALSE, 0), Outcome("retry", FALSE, 0),
                            Outcome("abort", FALSE, 0), Outcome("fault", FALSE, 0)}]

\* Statuses of the rows in the queue: waiting since the last tick or since
\* now, and leases left by dead workers two ticks ago, with no attempts on
\* record or with nine.
QueueStatuses ==
    {StatusOf(waiting, now(0 - 1), 0), StatusOf(waiting, now(0), 0),
     StatusOf(working, now(0 - 2), 0), StatusOf(working, now(0 - 2), 9)}

\* Row 1 waits; row 2 is in any of these statuses.
InitQueue ==
    /\ InitCalls
    /\ cfg = Requeuing
    /\ store \in [{1, 2} -> QueueStatuses]
    /\ state(store[1]) = waiting

SpecQueue == InitQueue /\ [][NextRun]_vars /\ Fairness

(***************************************************************************)
(* The Status methods called directly, on arguments of every kind.         *)
(***************************************************************************)
\* States: the five, and numbers that are none of them.
CodecStates == {0 - 1, 0, 1, 2, 3, 4, 5, 6, 7, 10}

\* Attempts: digits, and numbers that are not.
CodecAttempts == {0 - 1, 0, 5, 9, 10}

\* Datetimes: tick 0 and its neighbours, a day with a sub-millisecond part,
\* the last instant there is, and a year of three digits.
CodecDatetimes ==
    {now(0), now(1), now(2),
     [year |-> 1999, month |-> 7, day |-> 8, hour |-> 0, minute |-> 7,
      second |-> 14, microsecond |-> 99999],
     [year |-> 9999, month |-> 12, day |-> 31, hour |-> 23, minute |-> 59,
      second |-> 59, microsecond |-> 999999],
     [year |-> 999, month |-> 1, day |-> 2, hour |-> 3, minute |-> 4,
      second |-> 5, microsecond |-> 6789]}

\* Integer priorities: 0, 5, the docstrings' 20180102030456789, the largest
\* of 17 digits, and the smallest of 18.
CodecIntegers ==
    {<<0>>, <<5>>, <<2, 0, 1, 8, 0, 1, 0, 2, 0, 3, 0, 4, 5, 6, 7, 8, 9>>,
     [i \in 1..17 |-> 9], <<1>> \o [i \in 1..17 |-> 0]}

\* The priority arguments of one kind, "datetime" or "int".
CodecPriorities(tag) ==
    IF tag = "datetime" THEN {DtPri(d) : d \in CodecDatetimes}
    ELSE {IntPri(v) : v \in CodecIntegers}

\* Status.combine(st, pri, att) on the arguments chosen.
Combine ==
    /\ codec.op = "args"
    /\ codec' = [op |-> "combine", st |-> codec.st, pri |-> codec.pri,
                 att |-> codec.att,
                 status |-> combine(codec.st, codec.pri, codec.att)]
    /\ UNCHANGED <<store, clock, pc, worker, wstatus, wattempts, params, nows,
                   txn, handled, admins, request, ret, lost, reclaimed, cfg>>

\* status.parse(datetime=flag) on the status combine returned.
Parse ==
    /\ codec.op = "combine" /\ codec.status # Failed
    /\ \E flag \in BOOLEAN :
          codec' = [op |-> "parse", st |-> codec.st, pri |-> codec.pri,
                    att |-> codec.att, status |-> codec.status,
                    flag |-> flag, parsed |-> parse(codec.status, flag)]
    /\ UNCHANGED <<store, clock, pc, worker, wstatus, wattempts, params, nows,
                   txn, handled, admins, request, ret, lost, reclaimed, cfg>>

\* A second status of the same state, and the comparison of the two integers.
Compare ==
    /\ codec.op = "combine" /\ codec.status # Failed
    /\ \E tag \in {"datetime", "int"}, att \in CodecAttempts :
       \E pri \in CodecPriorities(tag) :
          LET other == combine(codec.st, pri, att)
          IN /\ other # Failed
             /\ codec' = [op |-> "compare", st |-> codec.st, pri |-> codec.pri,
                          att |-> codec.att, status |-> codec.status,
                          pri2 |-> pri, att2 |-> att, status2 |-> other,
                          leq |-> IntLeq(codec.status, other)]
    /\ UNCHANGED <<store, clock, pc, worker, wstatus, wattempts, params, nows,
                   txn, handled, admins, request, ret, lost, reclaimed, cfg>>

\* Status.filter(field, s), applied to the status combine returned.
Filter ==
    /\ codec.op = "combine" /\ codec.status # Failed
    /\ \E s \in {states[i] : i \in 1..Len(states)} :
          LET kwargs == filter(s)
          IN codec' = [op |-> "filter", st |-> codec.st, pri |-> codec.pri,
                       att |-> codec.att, status |-> codec.status,
                       fstate |-> s, kwargs |-> kwargs,
                       selected |-> /\ IntLeq(kwargs.gte, codec.status)
                                    /\ IntLeq(codec.status, kwargs.lte)]
    /\ UNCHANGED <<store, clock, pc, worker, wstatus, wattempts, params, nows,
                   txn, handled, admins, request, ret, lost, reclaimed, cfg>>

NextCodec == Combine \/ Parse \/ Compare \/ Filter

\* No caller of run is at work; the arguments of combine are chosen.
InitCodec ==
    /\ clock = 0
    /\ pc = [c \in Calls |-> "idle"]
    /\ worker = [c \in Calls |-> NoRow]
    /\ wstatus = [c \in Calls |-> NoStatus]
    /\ wattempts = [c \in Calls |-> 0]
    /\ params = [c \in Calls |-> NoParams]
    /\ nows = [c \in Calls |-> NoNows]
    /\ txn = [c \in Calls |-> NoTxn]
    /\ handled = [c \in Calls |-> NoHandled]
    /\ admins = 0
    /\ request = NoRequest
    /\ ret = Fresh
    /\ lost = [c \in Calls |-> FALSE]
    /\ reclaimed = [c \in Calls |-> FALSE]
    /\ cfg = Sequential
    /\ store = [r \in {1} |-> StatusOf(waiting, now(0), 0)]
    /\ \E st \in CodecStates, tag \in {"datetime", "int"}, att \in CodecAttempts :
       \E pri \in CodecPriorities(tag) :
          codec = [op |-> "args", st |-> st, pri |-> pri, att |-> att,
                   status |-> Failed]

SpecCodec == InitCodec /\ [][NextCodec]_vars

(***************************************************************************)
(* Steps, as the properties below name them.                               *)
(***************************************************************************)
\* This step ends caller c's phase A, and it claims a row: the lease is
\* committed.
Claims(c) == pc[c] = "claim_save" /\ pc'[c] = "action"

\* This step is the end of caller c's action, as `kind`: a handler of run
\* sets the local row's status.
Handles(c, kind) ==
    pc[c] = "action" /\ pc'[c] = "save" /\ ret'.outcome.kind = kind

\* This step is the end of caller c's phase B, the action having ended as
\* `kind`: the local row is saved and run returns or raises.
Resolves(c, kind) ==
    pc[c] = "save" /\ pc'[c] # "save" /\ ret'.outcome.kind = kind

\* The value of now() that the handler of caller c read, and its integer.
HandlerNow(c) == now(handled[c].at)
HandlerInt(c) == datetime_to_int(HandlerNow(c))

\* The integer of now() at the current tick.
NowInt == datetime_to_int(now(clock))

\* A call of run on table st at tick t, no time passing and no other caller
\* taking a step in its phase A, returns None, whatever its arguments.
RunGivesNone(st, t) ==
    \A retry \in cfg.retries, timeout \in cfg.timeouts, delay \in cfg.delays :
        \A res \in PhaseA(st, retry, timeout, delay, now(t), now(t), now(t), now(t)) :
            res.kind = "none"

\* The callers now executing their action on row r.
Leasing(r) == {c \in Calls : pc[c] = "action" /\ worker[c] = r}

\* The callers in phase B of run on row r: in the action, or about to save.
Holding(r) == {c \in Calls : InRun(c) /\ worker[c] = r}

(***************************************************************************)
(* C1.  Callers race for one waiting row (SpecRace: each calls run once,   *)
(* no lease can time out, the action returns or raises an exception).  As  *)
(* claimed: once every caller has been through phase A, exactly one had    *)
(* its action invoked and every other one got None.  This fails: the       *)
(* action of the first raises, the row is requeued within retry, and a     *)
(* caller that comes to its waiting query after that claims the row too.   *)
(***************************************************************************)
\* The callers whose action was invoked.
Invoked == {c \in Calls : pc[c] \in {"action", "save", "row", "raise"}}

\* Every caller has been through phase A.
AllThrough == \A c \in Calls : pc[c] \in {"action", "save", "row", "raise", "none"}

C2_AtMostOneLeasing ==
    \A r \in DOMAIN store :
        Cardinality({c \in Holding(r) : ~reclaimed[c]}) <= 1

(***************************************************************************)
(* C3.  A status whose state is finished or canceled is never changed by   *)
(* a step of run.  This fails: a call whose lease was reclaimed writes its *)
(* resolution over whatever the row holds by then.                         *)
(***************************************************************************)
C3_TerminalNeverChanged ==
    [][\A r \in DOMAIN store :
          state(store[r]) \in {finished, canceled} => store'[r] = store[r]]_vars

(***************************************************************************)
(* C4.  The retry budget (SpecBudget: one row from waiting with no         *)
(* attempts, no delay, an action that always fails, retry = r in 0..8).    *)
(* The row has at most r + 1 attempts; it waits while it has at most r     *)
(* (so it is requeued r times) and is canceled with exactly r + 1; every   *)
(* call that claimed it adds one attempt and raises.                       *)
(***************************************************************************)
BudgetOf == CHOOSE r \in cfg.retries : TRUE

C4_BudgetState ==
    /\ attempts(store[1]) <= BudgetOf + 1
    /\ state(store[1]) \in {waiting, working, canceled}
    /\ state(store[1]) = canceled <=> (~InRun(1) /\ attempts(store[1]) = BudgetOf + 1)
    /\ state(store[1]) = working <=> InRun(1)

C4_BudgetStep ==
    \A c \in Calls :
        Resolves(c, "fault") =>
            /\ ret'.kind = "raise"
            /\ attempts(store'[1]) = attempts(store[1]) + 1
            /\ state(store'[1]) =
                 IF attempts(store[1]) + 1 <= BudgetOf THEN waiting ELSE canceled

C4_RetryBudget == []C4_BudgetState /\ [][C4_BudgetStep]_vars

C4_Witness ==
    /\ cfg.retries = {3}
    /\ state(store[1]) = canceled /\ attempts(store[1]) = 4
    /\ ret.kind = "raise"

(***************************************************************************)
(* C5.  What run stores when the action raised an exception, as it stands  *)
(* when the caller sees the exception: attempts read at the claim plus     *)
(* one; waiting at now + delay if that is within retry (and then, with a   *)
(* delay, a next call of run returns None), else canceled at now.          *)
(***************************************************************************)
FaultResolved(c) ==
    LET a1 == wattempts[c] + 1
        s2 == store'[worker[c]]
    IN /\ ret'.kind = "raise"
       /\ attempts(s2) = a1
       /\ IF a1 <= params[c].retry
          THEN /\ state(s2) = waiting
               /\ priority(s2) = datetime_to_int(AddMs(HandlerNow(c), params[c].delay))
               /\ params[c].delay > clock' - handled[c].at =>
                     RunGivesNone(store', clock')
          ELSE /\ state(s2) = canceled
               /\ priority(s2) = HandlerInt(c)

\* This fails for nine attempts read at the claim: the tenth does not fit
\* the digit, combine fails in the handler, and the row stays working with
\* nine (see C16).
C5_FaultPersisted ==
    [][\A c \in Calls : Resolves(c, "fault") => FaultResolved(c)]_vars

(***************************************************************************)
(* C6.  The action returned: run returns the row, stored as finished, at   *)
(* now, with the attempts read at the claim plus one.                      *)
(***************************************************************************)
SuccessResolved(c) ==
    LET s2 == store'[worker[c]]
    IN /\ ret'.kind = "row" /\ ret'.row = worker[c]
       /\ state(s2) = finished
       /\ priority(s2) = HandlerInt(c)
       /\ attempts(s2) = wattempts[c] + 1

\* This fails for nine attempts read at the claim: the tenth does not fit
\* the digit, combine fails in the else clause, run raises and the row stays
\* working with nine (see C16).
C6_SuccessFinishes ==
    [][\A c \in Calls : Resolves(c, "success") => SuccessResolved(c)]_vars

(***************************************************************************)
(* C7.  The action raised Retry: run returns the row and raises nothing;   *)
(* the row is waiting with the attempts read at the claim, at now + the    *)
(* signal's delay if it has one, else run's.  That is not before the       *)
(* priority it was claimed at: a claim never moves the priority back, and  *)
(* the resolution is not before the lease's start.                         *)
(***************************************************************************)
C7_RetryRequeues ==
    [][\A c \in Calls :
          /\ Claims(c) =>
               IntLeq(priority(store[worker'[c]]), priority(store'[worker'[c]]))
          /\ Resolves(c, "retry") =>
               LET s2 == store'[worker[c]]
                   d  == IF ret'.outcome.hasDelay THEN ret'.outcome.delay
                         ELSE params[c].delay
               IN /\ ret'.kind = "row" /\ ret'.row = worker[c]
                  /\ state(s2) = waiting
                  /\ attempts(s2) = wattempts[c]
                  /\ priority(s2) = datetime_to_int(AddMs(HandlerNow(c), d))
          /\ Handles(c, "retry") =>
               IntLeq(priority(wstatus[c]), priority(wstatus'[c]))]_vars

\* Requeued with the signal's own delay, and with nine attempts on record.
C7_Witness ==
    /\ ret.kind = "row" /\ ret.outcome = Outcome("retry", TRUE, 2)
    /\ state(store[ret.row]) = waiting /\ attempts(store[ret.row]) = 9
    /\ priority(store[ret.row]) = datetime_to_int(now(clock + 2))

(***************************************************************************)
(* C8.  The action raised Abort: run returns the row and raises nothing;   *)
(* the attempts are those read at the claim plus one; within retry the row *)
(* is waiting at now + the signal's delay if it has one, else run's;       *)
(* beyond it the row is canceled at now.                                   *)
(***************************************************************************)
AbortResolved(c) ==
    LET a1 == wattempts[c] + 1
        s2 == store'[worker[c]]
        d  == IF ret'.outcome.hasDelay THEN ret'.outcome.delay ELSE params[c].delay
    IN /\ ret'.kind = "row" /\ ret'.row = worker[c]
       /\ attempts(s2) = a1
       /\ IF a1 <= params[c].retry
          THEN state(s2) = waiting
               /\ priority(s2) = datetime_to_int(AddMs(HandlerNow(c), d))
          ELSE state(s2) = canceled /\ priority(s2) = HandlerInt(c)

\* This fails for nine attempts read at the claim: the tenth does not fit
\* the digit, combine fails in the handler of Abort, run raises and the row
\* stays working with nine, not canceled (see C16).
C8_AbortResolves ==
    [][\A c \in Calls : Resolves(c, "abort") => AbortResolved(c)]_vars

(***************************************************************************)
(* C9.  The action raised Cancel: run returns the row and raises nothing;  *)
(* the row is canceled at now with the attempts read at the claim plus     *)
(* one, whatever retry is.                                                 *)
(***************************************************************************)
CancelResolved(c) ==
    LET s2 == store'[worker[c]]
    IN /\ ret'.kind = "row" /\ ret'.row = worker[c]
       /\ state(s2) = canceled
       /\ priority(s2) = HandlerInt(c)
       /\ attempts(s2) = wattempts[c] + 1

\* This fails for nine attempts read at the claim: the tenth does not fit
\* the digit, combine fails in the handler of Cancel, run raises and the row
\* stays working with nine, not canceled (see C16).
C9_CancelCancels ==
    [][\A c \in Calls : Resolves(c, "cancel") => CancelResolved(c)]_vars

(***************************************************************************)
(* C10.  A waiting row whose priority is after now is left as it is by     *)
(* every step of run, unless the clock reaches its priority in the step.   *)
(* This fails: a call whose lease was reclaimed, the row put back to wait  *)
(* with a delay, writes its resolution over it (see C3).                   *)
(***************************************************************************)
C10_FutureRowUntouched ==
    [][\A r \in DOMAIN store :
          state(store[r]) = waiting /\ IntLess(NowInt, priority(store[r])) =>
              \/ store'[r] = store[r]
              \/ IntLeq(priority(store[r]), datetime_to_int(now(clock')))]_vars

(***************************************************************************)
(* Timeout reclaim, under SpecReclaim: one caller, whose every call has    *)
(* the same retry, timeout and delay.                                      *)
(***************************************************************************)
\* This step ends a phase A of run: the call claimed a row, returned None or
\* raised.
RanPhaseA == ret'.kind \in {"claim", "none", "raise"} /\ ret'.outcome = NoOutcome

\* After this step every caller is outside run: the call that ended in it
\* called no action.
CallsOver == \A c \in Calls : pc'[c] = "idle"

DelayOf == CHOOSE d \in cfg.delays : TRUE
TimeoutOf == CHOOSE t \in cfg.timeouts : TRUE

\* Row r is a lease that started before now - timeout, now being the first
\* now() of the phase A this step ends.
StaleLease(r) ==
    /\ state(store[r]) = working
    /\ IntLess(priority(store[r]),
               datetime_to_int(AddMs(now(ret'.nows[1]), 0 - TimeoutOf)))

\* The integer of now() + ms, for the i-th now() of the phase A this step
\* ends.
NowPlus(i, ms) == datetime_to_int(AddMs(now(ret'.nows[i]), ms))

(***************************************************************************)
(* C11.  The only row that is not finished or canceled is a lease with a   *)
(* attempts, a + 1 <= retry, started before now - timeout, and delay is 0: *)
(* the call of run reclaims the row and claims it, with a + 1 attempts, and*)
(* when the action returns run returns the row, finished, with one attempt *)
(* more: a + 2.                                                            *)
(***************************************************************************)
C11_ReclaimAndFinish ==
    [][\A c \in Calls :
        /\ \A r \in DOMAIN store :
              ( /\ RanPhaseA /\ pc'[c] # pc[c]
                /\ StaleLease(r)
                /\ attempts(store[r]) + 1 <= BudgetOf
                /\ DelayOf = 0
                /\ \A q \in DOMAIN store \ {r} :
                      state(store[q]) \in {finished, canceled} )
              => /\ ret'.kind = "claim" /\ ret'.row = r /\ ret'.reclaimed = r
                 /\ pc'[c] = "action" /\ worker'[c] = r
                 /\ state(store'[r]) = working
                 /\ attempts(store'[r]) = attempts(store[r]) + 1
                 /\ wattempts'[c] = attempts(store[r]) + 1
        /\ (Resolves(c, "success") /\ wattempts[c] <= 8)
              => /\ ret'.kind = "row" /\ ret'.row = worker[c]
                 /\ state(store'[worker[c]]) = finished
                 /\ attempts(store'[worker[c]]) = wattempts[c] + 1]_vars

\* The lease forced in with no attempts is finished with two, in one call.
C11_Witness ==
    /\ ret.kind = "row" /\ ret.row = 1 /\ ret.outcome.kind = "success"
    /\ state(store[1]) = finished /\ attempts(store[1]) = 2
    /\ state(store[2]) = finished
    /\ DelayOf = 0

(***************************************************************************)
(* C12.  Phase A reclaims a lease with a attempts: the row gets a + 1      *)
(* attempts; if a + 1 <= retry it waits at now + delay (and, being         *)
(* reclaimed before a waiting row is selected, is the row claimed by this  *)
(* very call when delay is 0 and no other row waits); else it is canceled  *)
(* at now, whatever delay is.  This fails: the canceled row's priority is  *)
(* now + delay.                                                            *)
(***************************************************************************)
C12_ReclaimTransition ==
    [][\A r \in DOMAIN store :
          (RanPhaseA /\ ret'.kind # "raise" /\ ret'.reclaimed = r) =>
              LET a1 == attempts(store[r]) + 1 IN
              IF a1 <= BudgetOf
              THEN \/ /\ ret'.row = r
                      /\ state(store'[r]) = working /\ attempts(store'[r]) = a1
                   \/ /\ ret'.row # r
                      /\ state(store'[r]) = waiting /\ attempts(store'[r]) = a1
                      /\ priority(store'[r]) = NowPlus(2, DelayOf)
                      /\ ~ ( /\ DelayOf = 0
                             /\ \A q \in DOMAIN store \ {r} :
                                   state(store[q]) # waiting )
              ELSE /\ ret'.row # r
                   /\ state(store'[r]) = canceled /\ attempts(store'[r]) = a1
                   /\ priority(store'[r]) = NowPlus(2, 0)]_vars

(***************************************************************************)
(* C13.  As claimed: run reclaims a lease with delay > 0 and no waiting    *)
(* row is due: it returns None without calling the action, the row waits   *)
(* with one attempt more at a priority after now, and a next call returns  *)
(* None.  This fails when the attempts exceed retry: the row is canceled;  *)
(* and when phase A takes as long as the delay, the row being due again    *)
(* before the call is over.                                                *)
(***************************************************************************)
ReclaimsOnly(r) ==
    /\ RanPhaseA /\ ret'.kind # "raise" /\ ret'.reclaimed = r
    /\ DelayOf > 0
    /\ \A q \in DOMAIN store :
          state(store[q]) = waiting =>
              IntLess(datetime_to_int(now(clock')), priority(store[q]))

\* The delay is longer than the time from the now() of the reclaim to the
\* end of this phase A.
OutlastsPhaseA == DelayOf > clock' - ret'.nows[2]

C13_ReclaimPersisted ==
    [][\A r \in DOMAIN store :
          ReclaimsOnly(r) =>
              /\ ret'.kind = "none" /\ CallsOver
              /\ state(store'[r]) = waiting
              /\ attempts(store'[r]) = attempts(store[r]) + 1
              /\ IntLess(datetime_to_int(now(clock')), priority(store'[r]))
              /\ RunGivesNone(store', clock')]_vars

\* Amended: with a delay that outlasts phase A, the row waits, at a priority
\* after now, if its attempts are within retry, and is canceled if not.
C13_ReclaimPersistedWithinBudget ==
    [][\A r \in DOMAIN store :
          (ReclaimsOnly(r) /\ OutlastsPhaseA) =>
              /\ ret'.kind = "none" /\ CallsOver
              /\ attempts(store'[r]) = attempts(store[r]) + 1
              /\ IF attempts(store[r]) + 1 <= BudgetOf
                 THEN /\ state(store'[r]) = waiting
                      /\ IntLess(datetime_to_int(now(clock')), priority(store'[r]))
                 ELSE state(store'[r]) = canceled
              /\ RunGivesNone(store', clock')]_vars

C13_Witness ==
    /\ ret.kind = "none" /\ ret.reclaimed = 1
    /\ DelayOf > 0
    /\ state(store[1]) = waiting /\ attempts(store[1]) = 1
    /\ IntLess(NowInt, priority(store[1]))

(***************************************************************************)
(* C14.  Rows are served in the order of their status (SpecTable: one      *)
(* caller, an action that returns, rows queued at distinct past times).    *)
(* A call of run claims the row of smallest status among the waiting rows  *)
(* that are due, hence the one of earliest priority; the action returning, *)
(* that row is finished; and with no waiting row left run returns None.    *)
(***************************************************************************)
\* Row r is waiting and due at the third now() of the phase A this step
\* ends: the one of max_waiting.
Due(r) ==
    /\ state(store[r]) = waiting
    /\ IntLeq(priority(store[r]), datetime_to_int(now(ret'.nows[3])))

C14_ServedInPriorityOrder ==
    [][/\ (RanPhaseA /\ \E r \in DOMAIN store : Due(r)) =>
            /\ ret'.kind = "claim"
            /\ Due(ret'.row)
            /\ state(store'[ret'.row]) = working
            /\ \A q \in DOMAIN store \ {ret'.row} :
                  Due(q) => /\ IntLess(store[ret'.row], store[q])
                            /\ IntLess(priority(store[ret'.row]), priority(store[q]))
                            /\ store'[q] = store[q]
       /\ (RanPhaseA /\ \A r \in DOMAIN store : state(store[r]) # waiting) =>
            ret'.kind = "none"
       /\ \A c \in Calls :
            Resolves(c, "success") =>
                /\ ret'.kind = "row" /\ ret'.row = worker[c]
                /\ state(store'[worker[c]]) = finished]_vars

\* Every row has been served, and one more call returned None.
C14_Witness ==
    /\ \A r \in DOMAIN store : state(store[r]) = finished
    /\ ret.kind = "none"

(***************************************************************************)
(* C15.  A created row is never claimed, reclaimed or changed by a step of *)
(* run, and over a table of created rows only, every call of run returns   *)
(* None, calls no action and changes nothing.                              *)
(***************************************************************************)
C15_CreatedUntouched ==
    [][/\ \A r \in DOMAIN store :
            state(store[r]) = created =>
                /\ store'[r] = store[r]
                /\ RanPhaseA => (ret'.row # r /\ ret'.reclaimed # r)
                /\ \A c \in Calls : worker'[c] # r
       /\ (RanPhaseA /\ \A r \in DOMAIN store : state(store[r]) = created) =>
            /\ ret'.kind = "none"
            /\ store' = store
            /\ CallsOver]_vars

\* Only created rows, some of them queued before now, and run returned None
\* after the clock had moved.
C15_Witness ==
    /\ \A r \in DOMAIN store : state(store[r]) = created
    /\ ret.kind = "none"
    /\ clock > 0

(***************************************************************************)
(* C16.  A lease that the clock can outlast (it started at least a timeout *)
(* before the last tick) is eventually ended, if time advances and run     *)
(* keeps being called with that timeout: the row leaves the state working, *)
(* or, claimed again in the call that reclaimed it, is under a later       *)
(* lease.  This fails for a lease with nine attempts on record: the        *)
(* reclaim fails in every call, and the leases behind it are never reached *)
(* either.                                                                 *)
(***************************************************************************)
LastStale == datetime_to_int(AddMs(now(MaxClock), 0 - TimeoutOf))

C16_LeaseEventuallyEnds ==
    \A r \in {1, 2} :
        (state(store[r]) = working /\ IntLeq(priority(store[r]), LastStale))
        ~> (state(store[r]) # working \/ IntLess(LastStale, priority(store[r])))

(***************************************************************************)
(* The codec, under SpecCodec.                                             *)
(***************************************************************************)
\* The arguments of the last combine are valid: one of the five states, a
\* datetime or an integer of at most 17 digits, attempts 0 to 9.
ValidPriority(pri) == pri.tag = "datetime" \/ Len(pri.v) <= 17

ValidArgs ==
    /\ codec.st \in 1..5
    /\ ValidPriority(codec.pri)
    /\ codec.att \in 0..9

\* A priority argument as the 17-digit integer it stands for.
PriorityInt(pri) == IF pri.tag = "datetime" THEN datetime_to_int(pri.v) ELSE pri.v

\* A datetime cut down to whole milliseconds.
Truncated(d) == [d EXCEPT !.microsecond = (d.microsecond \div 1000) * 1000]

(***************************************************************************)
(* C17.  parse(combine(state, priority, attempts)), for valid arguments (a *)
(* datetime parsed back as a datetime, an integer as an integer), is the   *)
(* same state and attempts, and the priority cut down to milliseconds.     *)
(* This fails for a datetime before the year 1000: parse takes the fields  *)
(* from the priority written without its leading zeros.                    *)
(***************************************************************************)
C17_RoundTrip ==
    ( /\ codec.op = "parse" /\ ValidArgs
      /\ codec.flag <=> codec.pri.tag = "datetime" )
    => /\ codec.parsed # Failed
       /\ codec.parsed.state = codec.st
       /\ codec.parsed.attempts = codec.att
       /\ codec.parsed.priority =
             IF codec.flag THEN DtPri(Truncated(codec.pri.v)) ELSE codec.pri

(***************************************************************************)
(* C18.  For two statuses of one state made of valid arguments, the first  *)
(* integer is at most the second exactly when the first (priority,         *)
(* attempts) pair is at most the second in lexicographic order, and the    *)
(* integers are equal exactly when the pairs are.                          *)
(***************************************************************************)
C18_OrderIsLexicographic ==
    ( /\ codec.op = "compare" /\ ValidArgs
      /\ ValidPriority(codec.pri2) /\ codec.att2 \in 0..9 )
    => LET p1 == PriorityInt(codec.pri)
           p2 == PriorityInt(codec.pri2)
       IN /\ codec.leq <=> \/ IntLess(p1, p2)
                           \/ p1 = p2 /\ codec.att <= codec.att2
          /\ codec.status = codec.status2 <=> (p1 = p2 /\ codec.att = codec.att2)

\* A later priority with fewer attempts: the priority decides.
C18_Witness ==
    /\ codec.op = "compare" /\ ValidArgs
    /\ codec.att2 \in 0..9 /\ ValidPriority(codec.pri2)
    /\ IntLess(PriorityInt(codec.pri), PriorityInt(codec.pri2))
    /\ codec.att > codec.att2
    /\ codec.leq

(***************************************************************************)
(* C19.  A status made of valid arguments lies between the minimum and the *)
(* maximum of its state; the ranges of two states do not overlap; and the  *)
(* range Status.filter gives for a state selects the status exactly when   *)
(* that is its state.                                                      *)
(***************************************************************************)
C19_RangePartition ==
    /\ (codec.op \in {"combine", "filter"} /\ ValidArgs) =>
          /\ codec.status # Failed
          /\ IntLeq(minimum(codec.st), codec.status)
          /\ IntLeq(codec.status, maximum(codec.st))
    /\ \A s, t \in 1..5 :
          s < t => IntLess(maximum(s), minimum(t))
    /\ (codec.op = "filter" /\ ValidArgs) =>
          /\ codec.kwargs.gte = minimum(codec.fstate)
          /\ codec.kwargs.lte = maximum(codec.fstate)
          /\ codec.selected <=> codec.fstate = codec.st

\* The first status of working, against the filter for waiting: left out.
C19_Witness ==
    /\ codec.op = "filter" /\ ValidArgs
    /\ codec.st = working /\ codec.fstate = waiting
    /\ codec.status = minimum(working)
    /\ ~codec.selected

(***************************************************************************)
(* C20.  combine fails, and returns no status, when attempts is not one of *)
(* 0 to 9, or the priority has more than 17 digits, or the state is none   *)
(* of 1 to 5.  This fails for the state: combine(7, 0, 0) is a status, and *)
(* so is combine(0, 5, 0).                                                 *)
(***************************************************************************)
C20_CombineValidates ==
    (codec.op = "combine" /\ ~ValidArgs) => codec.status = Failed

(***************************************************************************)
(* C21.  The lease is stored while the action runs, under SpecRun: the     *)
(* claim is committed before the action is invoked, so that the stored     *)
(* status of a row is in the range of working whenever an action runs on   *)
(* it under a lease that no timeout reclaim has ended.  (An action that    *)
(* outlasts the timeout runs on after the reclaim of its lease, by design; *)
(* it is left out here.)  This fails: a call whose lease was reclaimed     *)
(* saves its resolution over the lease of the call that holds the row now  *)
(* (see C3), whose action then runs on a row stored as waiting, finished   *)
(* or canceled.                                                            *)
(***************************************************************************)
InWorkingRange(status) ==
    IntLeq(minimum(working), status) /\ IntLeq(status, maximum(working))

C21_WorkingWhileActionRuns ==
    \A c \in Calls :
        (pc[c] = "action" /\ ~reclaimed[c]) => InWorkingRange(store[worker[c]])

(***************************************************************************)
(* C22.  Which lease is reclaimed, under SpecStale.  Phase A reclaims a    *)
(* row exactly when some lease started at or before now - timeout, and the *)
(* row it reclaims is such a lease with the oldest start.  As stated,      *)
(* among leases of the same start it is one with the highest attempts:     *)
(* C22_OldestThenMostAttempts.  That fails: the query is in ascending      *)
(* order of the status, whose last digit is the attempts, so it is one     *)
(* with the lowest attempts: C22_OldestThenFewestAttempts.                 *)
(***************************************************************************)
\* Row r is a lease that started at or before nw - timeout.
Stale(r, nw) ==
    /\ state(store[r]) = working
    /\ IntLeq(priority(store[r]), datetime_to_int(AddMs(nw, 0 - TimeoutOf)))

\* Row r is a lease that started at or before now - timeout, now being the
\* first now() of the phase A this step ends: the one of max_working.
StaleAtStart(r) == Stale(r, now(ret'.nows[1]))

\* Row r is a lease that started at or before now - timeout, at this tick.
StaleAt(r) == Stale(r, now(clock))

\* A phase A reclaims a stale lease of the oldest start, if there is one.
ReclaimsOldest ==
    /\ ret'.reclaimed # NoRow <=> \E q \in DOMAIN store : StaleAtStart(q)
    /\ ret'.reclaimed # NoRow =>
          /\ StaleAtStart(ret'.reclaimed)
          /\ \A q \in DOMAIN store :
                StaleAtStart(q) => IntLeq(priority(store[ret'.reclaimed]),
                                          priority(store[q]))

\* The stale leases that started when the reclaimed one did.
SameStart ==
    {q \in DOMAIN store :
        StaleAtStart(q) /\ priority(store[q]) = priority(store[ret'.reclaimed])}

C22_OldestThenMostAttempts ==
    [][RanPhaseA =>
          /\ ReclaimsOldest
          /\ ret'.reclaimed # NoRow =>
                \A q \in SameStart :
                    attempts(store[q]) <= attempts(store[ret'.reclaimed])]_vars

C22_OldestThenFewestAttempts ==
    [][RanPhaseA =>
          /\ ReclaimsOldest
          /\ ret'.reclaimed # NoRow =>
                \A q \in SameStart :
                    attempts(store[ret'.reclaimed]) <= attempts(store[q])]_vars

\* The row with one attempt was reclaimed, and a lease of the oldest start
\* there is, with two attempts on record, was left for a later call.
C22_Witness ==
    /\ ret.reclaimed # NoRow
    /\ attempts(store[ret.reclaimed]) = 2
    /\ \E q \in DOMAIN store \ {ret.reclaimed} :
          store[q] = StatusOf(working, now(0 - 3), 2)

(***************************************************************************)
(* C23.  A lease that is not stale, under SpecRun.  A row that is working, *)
(* its lease started later than now - timeout, is changed by no call but   *)
(* the one that claimed it, resolving it; and a call other than the        *)
(* claimant takes a row out of working only by reclaiming it in phase A,   *)
(* the lease being stale.  This fails: a call whose own lease on the row   *)
(* was reclaimed long ago still saves its resolution when its action ends, *)
(* over the lease that another call holds now.                             *)
(***************************************************************************)
\* Row r is a lease that started later than now - timeout.
LiveLease(r) == state(store[r]) = working /\ ~StaleAt(r)

\* This step is the phase B of the call that holds the lease stored in r.
ClaimantResolves(r) ==
    \E c \in Calls :
        /\ pc[c] = "save" /\ pc'[c] # "save"
        /\ worker[c] = r /\ ~lost[c]

C23_LiveLeaseNeverTaken ==
    [][\A r \in DOMAIN store :
          /\ (LiveLease(r) /\ store'[r] # store[r]) => ClaimantResolves(r)
          /\ (state(store[r]) = working /\ state(store'[r]) # working) =>
                \/ ClaimantResolves(r)
                \/ RanPhaseA /\ ret'.reclaimed = r /\ StaleAt(r)]_vars

(***************************************************************************)
(* C24.  The worker dies in its action (SystemExit), under SpecRun.  run   *)
(* does not resolve the row: the exit goes on to the caller, and the row   *)
(* stays stored as it is, the lease written at the claim, working with the *)
(* start and the attempts of the claim.  A lease that no call holds any    *)
(* more is changed by nothing but the reclaim of a later phase A, when it  *)
(* has become stale.  This fails: the finally clause saves the row on the  *)
(* way out of an exit as well, so a call whose lease was reclaimed writes  *)
(* its old lease back over what the row holds by then; and the save of     *)
(* such a call takes the lease a dead worker left out of working with no   *)
(* reclaim (see C3, C23).                                                  *)
(***************************************************************************)
C24_ExitStep ==
    \A c \in Calls :
        Resolves(c, "exit") =>
            /\ ret'.kind = "raise"
            /\ store'[worker[c]] = store[worker[c]]
            /\ store'[worker[c]] = wstatus[c]
            /\ state(store'[worker[c]]) = working
            /\ attempts(store'[worker[c]]) = wattempts[c]

\* Row r is a lease that no call holds: the call that claimed it is over.
LeftLease(r) ==
    /\ state(store[r]) = working
    /\ \A c \in Holding(r) : lost[c]

C24_LeftLeaseStep ==
    \A r \in DOMAIN store :
        (LeftLease(r) /\ store'[r] # store[r]) =>
            RanPhaseA /\ ret'.reclaimed = r /\ StaleAt(r)

C24_ExitLeavesLease == [][C24_ExitStep /\ C24_LeftLeaseStep]_vars

(***************************************************************************)
(* C25.  The attempts stay one digit, under SpecCount: the row starts with *)
(* no attempts on record, and two callers call run, their steps in any     *)
(* interleaving, with retry 8 or with a retry outside 0 to 8; the          *)
(* action ends in any way.  In every state the attempts of the stored      *)
(* status are one of 0 to 9, and at most 8 when the row is waiting or      *)
(* working; no call with a retry in 0 to 8 can raise in phase A, and no    *)
(* resolution can fail to encode its status.  A call with a retry outside  *)
(* 0 to 8 raises and changes no row and claims none.                       *)
(***************************************************************************)
C25_Digits ==
    \A r \in DOMAIN store :
        /\ attempts(store[r]) \in 0..max_attempts
        /\ state(store[r]) \in {waiting, working} => attempts(store[r]) <= 8

\* No action that can end in this state fails in combine.
C25_NoEncodingFailure ==
    \A c \in Calls :
        pc[c] = "action" =>
            \A o \in cfg.outcomes :
                LET res == Resolution(o, wattempts[c], params[c].retry,
                                      params[c].delay, now(clock), wstatus[c])
                IN /\ res.raised => o.kind \in {"fault", "exit"}
                   /\ o.kind # "exit" => res.status # wstatus[c]

\* A call raises before its action only when its retry is outside 0 to 8,
\* and is then rejected before it touches a row.
C25_RejectStep ==
    /\ (RanPhaseA /\ ret'.kind = "raise") =>
          /\ ~ValidRetry(ret'.retry)
          /\ store' = store
          /\ pc' = pc /\ worker' = worker /\ wstatus' = wstatus
    /\ (RanPhaseA /\ ~ValidRetry(ret'.retry)) => ret'.kind = "raise"

C25_AttemptsOneDigit ==
    /\ [](C25_Digits /\ C25_NoEncodingFailure)
    /\ [][C25_RejectStep]_vars

\* The ninth failure of the action was resolved: canceled, nine attempts;
\* and a call with a retry out of range was rejected.
C25_Witness ==
    /\ state(store[1]) = canceled /\ attempts(store[1]) = 9
    /\ ret.kind = "raise" /\ ret.outcome = NoOutcome

(***************************************************************************)
(* C26.  The attempts on record never decrease, under SpecRun: in no step  *)
(* of any interleaving of calls of run does the stored status of a row     *)
(* come to have fewer attempts than it had, the calls whose lease was      *)
(* reclaimed while their action ran included.  This fails for exactly      *)
(* those calls: the reclaim counted an attempt, and the call then saves a  *)
(* status made from the attempts it read at its claim.                     *)
(***************************************************************************)
C26_AttemptsNeverDecrease ==
    [][\A r \in DOMAIN store : attempts(store[r]) <= attempts(store'[r])]_vars

(***************************************************************************)
(* C27.  Phase A fails in its reclaim, under SpecLeft.  When the stale     *)
(* lease that is first in the order has nine attempts on record, the       *)
(* status with ten cannot be encoded: the call of run raises, every row's  *)
(* stored status is as it was before the call, no row is claimed and the   *)
(* action is not invoked, even when a row is waiting and due.              *)
(***************************************************************************)
\* Row r is a stale lease that the working query may return first.
FirstStale(r) ==
    /\ StaleAtStart(r)
    /\ \A q \in DOMAIN store : StaleAtStart(q) => IntLeq(store[r], store[q])

C27_ReclaimFailureRollsBack ==
    [][(/\ RanPhaseA
        /\ \E r \in DOMAIN store : FirstStale(r)
        /\ \A r \in DOMAIN store : FirstStale(r) => attempts(store[r]) = 9) =>
            /\ ret'.kind = "raise" /\ ret'.row = NoRow
            /\ store' = store
            /\ CallsOver /\ worker' = worker /\ wstatus' = wstatus
            /\ \A c \in Calls : pc'[c] \notin {"action", "save"}]_vars

\* run raised, next to a row that was waiting and due, and still is.
C27_Witness ==
    /\ ret.kind = "raise" /\ ret.outcome = NoOutcome
    /\ \E r \in DOMAIN store :
          state(store[r]) = working /\ attempts(store[r]) = 9
    /\ \E r \in DOMAIN store :
          store[r] = StatusOf(waiting, now(0), 0)

(***************************************************************************)
(* C28.  No starvation, under SpecQueue: the clock advances, run is called *)
(* again and again, every action ends, and no row is inserted.  A row that *)
(* is waiting with a priority the clock reaches before its last tick is    *)
(* in the end claimed: it becomes a lease, whatever Retry, Abort, the      *)
(* exceptions and the reclaims do to the other row.  This fails when the   *)
(* other row is a stale lease with nine attempts on record: every call of  *)
(* run raises in its reclaim, before the waiting query, and the row waits  *)
(* for ever.                                                               *)
(***************************************************************************)
\* The integer of the last but one now().
LastDue == datetime_to_int(now(MaxClock - 1))

C28_NoStarvation ==
    \A r \in {1, 2} :
        (state(store[r]) = waiting /\ IntLeq(priority(store[r]), LastDue))
        ~> (state(store[r]) = working)

====
